---- MODULE Spec2Model ----
(***************************************************************************)
(* A model of the entity-component-system of src/main.cpp: the component   *)
(* type-id registry (genUComponentID / getComponentTypeID), Entity,        *)
(* EntityManager and the three component kinds the program defines.        *)
(*                                                                         *)
(* Objects on the heap are named by the place they were allocated at: an   *)
(* entity by the number of its addEntity call, a component by the pair     *)
(* <<owning entity, number of the allocation on that entity>>.  A failed   *)
(* assert ends the process with its message; an out-of-range index into a  *)
(* std::bitset / std::array is undefined behaviour: the process traps, or  *)
(* goes on in a state the model does not follow (status Undefined).        *)
(***************************************************************************)
EXTENDS Integers, Sequences, FiniteSets, TLC

\* ---------------------------------------------------------------- constants
maxComponents == 32
maxGroups == 32

\* The component kinds of the program, and further kinds that keep the
\* hooks of the base class Component (every T is a template instance).
CounterComponent == 1
ShapeComponent == 2
KillComponent == 3
ProgramKinds == {CounterComponent, ShapeComponent, KillComponent}
\* the class Component itself, attached as a kind: every hook is a no-op
BaseComponent == 4
AllKinds == 1..(maxComponents + 1)

\* KillComponent::updateComponent: counter >= 2
KillThreshold == 2

\* enum VOLEGroup of main
Player == 0
NPC == 1
ProgramGroups == {Player, NPC}

\* ------------------------------------------------------------------- bounds
\* addEntity calls of a run
MaxEntities == 1
\* entries of all group lists together
MaxGroupEntries == 2
\* the counters a tick may reach
MaxCounter == 2
\* addEntity calls of a run of the join driver
JoinEntities == 4

\* addEntity calls of a run of the driver of several entities with components
PairEntities == 2
\* addEntity calls of a run of the sweep driver
SweepEntities == 2
\* entries of all group lists together, in the sweep driver
SweepEntries == 3

\* the delta time of a tick, in seconds: one second per tick
Dts == {1}

\* ------------------------------------------------------------------- values
\* a static typeID that no call has initialised yet
NoID == -1
NullPtr == <<0, 0>>

\* the process: running, ended by one of the two asserts, ended by a trap,
\* or gone on after undefined behaviour
Running == "running"
DuplicateAbort == "ERROR: entity already owns this component."
MissingAbort == "ERROR: Component does not exist."
Trapped == "trapped"
Undefined == "undefined"
ComponentIDs == 0..(maxComponents - 1)
GroupIDs == 0..(maxGroups - 1)

VARIABLES
    lastID,            \* genUComponentID: static ComponentID lastID
    typeID,            \* getComponentTypeID<T>: static ComponentID typeID, per kind
    firstLookups,      \* the kinds in the order of their first getComponentTypeID call
    heap,              \* the live Entity objects, by entity
    mEntityContainer,  \* EntityManager::mEntityContainer
    mGroupedEntities,  \* EntityManager::mGroupedEntities
    nextEntity,        \* the number of the next addEntity call
    status,            \* Running, DuplicateAbort, MissingAbort, Trapped or Undefined
    calls              \* the updateObj / updateComponent / renderObj /
                       \* renderComponent calls made by the latest operation

vars == <<lastID, typeID, firstLookups, heap, mEntityContainer,
          mGroupedEntities, nextEntity, status, calls>>

registry == [lastID |-> lastID, typeID |-> typeID, firstLookups |-> firstLookups]

\* ----------------------------------------------------------------- registry
\* a registry that increments before it returns: return ++lastID
GenUComponentIDPre(last) ==
    [ret |-> last + 1, lastID |-> last + 1]

\* genUComponentID: return lastID++ (a uint32_t; the model registers at
\* most maxComponents + 1 kinds, far from the wrap at 2^32)
GenUComponentID(last) ==
    [ret |-> last, lastID |-> last + 1]

\* getComponentTypeID<k>: the static typeID is initialised by the first call
GetComponentTypeID(reg, k) ==
    LET log == IF \E i \in 1..Len(reg.firstLookups) : reg.firstLookups[i] = k
               THEN reg.firstLookups
               ELSE Append(reg.firstLookups, k)
    IN  IF reg.typeID[k] = NoID
        THEN LET g == GenUComponentID(reg.lastID)
             IN  [lastID |-> g.lastID,
                  typeID |-> [reg.typeID EXCEPT ![k] = g.ret],
                  firstLookups |-> log]
        ELSE [reg EXCEPT !.firstLookups = log]

\* ------------------------------------------------------------------- Entity
\* Entity::Entity: mAlive{true}, empty containers, cleared bitsets.  A
\* bitset is the set of its set bits; the lookup table is a function on the
\* slots that were written, every other slot holding nullptr.
NewEntity ==
    [mAlive |-> TRUE,
     mComponentsContainer |-> <<>>,
     mComponentArray |-> <<>>,
     mComponentBitset |-> {},
     mGroupBitset |-> {}]

\* new T(): a value-initialised component (counter 0, null sibling pointers).
\* inits is the record of the initComponent calls the component received:
\* what each call found on the entity; early tells that updateComponent was
\* called on the component before any initComponent.
NewComponent(e, ent, k) ==
    [kind |-> k,
     addr |-> <<e, Len(ent.mComponentsContainer) + 1>>,
     mEntity |-> 0,
     counter |-> 0,
     cCounter |-> NullPtr,
     cShape |-> NullPtr,
     inits |-> <<>>,
     early |-> FALSE]

\* a setOwnership that leaves the back-reference null
SetOwnershipNot(c, e) == c

\* Component::setOwnership
SetOwnership(c, e) == [c EXCEPT !.mEntity = e]

\* Entity::hasComponent, given the id
HasComponentBit(ent, id) == id \in ent.mComponentBitset

\* Entity::isAlive
IsAlive(ent) == ent.mAlive

\* Entity::hasGroup
HasGroup(ent, g) == g \in ent.mGroupBitset

\* a destroyObj that flips the flag: mAlive = !mAlive
DestroyObjToggles(ent) == [ent EXCEPT !.mAlive = ~@]

\* a destroyObj that also resets the group bits
DestroyObjLeavesGroups(ent) ==
    [ent EXCEPT !.mAlive = FALSE, !.mGroupBitset = {}]

\* Entity::destroyObj
DestroyObjOp(ent) == [ent EXCEPT !.mAlive = FALSE]

\* a deleteGroup that resets the whole bitset
DeleteGroupClearsAll(ent, g) == [ent EXCEPT !.mGroupBitset = {}]

\* Entity::deleteGroup
DeleteGroupOp(ent, g) == [ent EXCEPT !.mGroupBitset = @ \ {g}]


\* Entity::hasComponent<k>: the lookup of the id, then the bit test.  An id
\* outside the bitset is an out-of-range operator[]: status "undefined".
HasComponentOp(reg, ent, k) ==
    LET reg1 == GetComponentTypeID(reg, k)
        id == reg1.typeID[k]
    IN  IF id \in ComponentIDs
        THEN [reg |-> reg1, status |-> Running, ok |-> HasComponentBit(ent, id)]
        ELSE [reg |-> reg1, status |-> Undefined, ok |-> FALSE]

\* a getComponent that returns the newest component of the entity
GetComponentPtrLast(ent, id) ==
    IF ent.mComponentsContainer = <<>>
    THEN NullPtr
    ELSE ent.mComponentsContainer[Len(ent.mComponentsContainer)].addr

\* Entity::getComponent<k>: assert(hasComponent<k>()), then the slot of the
\* lookup table
GetComponentPtr(ent, id) ==
    IF id \in DOMAIN ent.mComponentArray
    THEN ent.mComponentArray[id]
    ELSE NullPtr

GetComponentOp(reg, ent, k) ==
    LET h == HasComponentOp(reg, ent, k)
    IN  IF h.status # Running
        THEN [reg |-> h.reg, status |-> h.status, ret |-> NullPtr]
        ELSE IF ~h.ok
        THEN [reg |-> h.reg, status |-> MissingAbort, ret |-> NullPtr]
        ELSE [reg |-> h.reg, status |-> Running,
              ret |-> GetComponentPtr(ent, h.reg.typeID[k])]

\* an addComponent that forgets line 130, the capability bit
InstallWithoutBit(ent, c, id) ==
    [ent EXCEPT !.mComponentsContainer = Append(@, c),
                !.mComponentArray = (id :> c.addr) @@ @]

\* addComponent, lines 125..130: the component goes to the end of the owned
\* sequence, into slot id of the lookup table, and bit id is set
InstallComponent(ent, c, id) ==
    [ent EXCEPT !.mComponentsContainer = Append(@, c),
                !.mComponentArray = (id :> c.addr) @@ @,
                !.mComponentBitset = @ \cup {id}]

\* the component of an entity at an address (the dereference of a pointer
\* to a sibling component)
IndexOf(ent, a) ==
    CHOOSE n \in 1..Len(ent.mComponentsContainer) :
        ent.mComponentsContainer[n].addr = a

Owns(ent, a) ==
    \E n \in 1..Len(ent.mComponentsContainer) :
        ent.mComponentsContainer[n].addr = a

\* what a call of initComponent on the component at place n finds: the
\* back-reference of the component, and whether the entity has the component
\* in its owned sequence, in its slot of the lookup table, and has its bit
AtInit(reg, ent, n) ==
    LET c == ent.mComponentsContainer[n]
        id == reg.typeID[c.kind]
    IN  [mEntity |-> c.mEntity,
         owned |-> Owns(ent, c.addr),
         slot |-> GetComponentPtr(ent, id) = c.addr,
         bit |-> HasComponentBit(ent, id)]

\* KillComponent::initComponent: cCounter and cShape are fetched from the
\* owning entity; every other kind keeps Component::initComponent, a no-op.
\* n is the place of the component in the owned sequence.
InitComponent(reg, ent0, n) ==
    LET ent == [ent0 EXCEPT !.mComponentsContainer[n].inits =
                                Append(@, AtInit(reg, ent0, n))]
    IN
    IF ent.mComponentsContainer[n].kind # KillComponent
    THEN [reg |-> reg, ent |-> ent, status |-> Running]
    ELSE LET g1 == GetComponentOp(reg, ent, CounterComponent)
         IN  IF g1.status # Running
             THEN [reg |-> g1.reg, ent |-> ent, status |-> g1.status]
             ELSE LET ent1 == [ent EXCEPT
                                  !.mComponentsContainer[n].cCounter = g1.ret]
                      g2 == GetComponentOp(g1.reg, ent1, ShapeComponent)
                  IN  IF g2.status # Running
                      THEN [reg |-> g2.reg, ent |-> ent1, status |-> g2.status]
                      ELSE [reg |-> g2.reg,
                            ent |-> [ent1 EXCEPT
                                  !.mComponentsContainer[n].cShape = g2.ret],
                            status |-> Running]

\* an addComponent without the assert of line 116
AddComponentNoAssert(reg, ent, e, k) ==
    LET h == HasComponentOp(reg, ent, k)
        id == h.reg.typeID[k]
    IN  IF h.status # Running
        THEN [reg |-> h.reg, ent |-> ent, status |-> h.status, ret |-> NullPtr]
        ELSE LET c == SetOwnership(NewComponent(e, ent, k), e)
                 ent1 == InstallComponent(ent, c, id)
                 i == InitComponent(h.reg, ent1, Len(ent1.mComponentsContainer))
             IN  [reg |-> i.reg, ent |-> i.ent, status |-> i.status,
                  ret |-> IF i.status = Running THEN c.addr ELSE NullPtr]

\* Entity::addComponent<k> on entity e
AddComponentOp(reg, ent, e, k) ==
    LET h == HasComponentOp(reg, ent, k)
        id == h.reg.typeID[k]
    IN  IF h.status # Running
        THEN [reg |-> h.reg, ent |-> ent, status |-> h.status, ret |-> NullPtr]
        ELSE IF h.ok
        THEN [reg |-> h.reg, ent |-> ent, status |-> DuplicateAbort, ret |-> NullPtr]
        ELSE LET c == SetOwnership(NewComponent(e, ent, k), e)
                 ent1 == InstallComponent(ent, c, id)
                 i == InitComponent(h.reg, ent1, Len(ent1.mComponentsContainer))
             IN  [reg |-> i.reg, ent |-> i.ent, status |-> i.status,
                  ret |-> IF i.status = Running THEN c.addr ELSE NullPtr]

\* ---------------------------------------------------------- update of an entity
\* CounterComponent::updateComponent: counter += dt
\* ShapeComponent::updateComponent: moves the shape (no state of the model)
\* KillComponent::updateComponent: if (cCounter->counter >= 2) mEntity->destroyObj()
UpdateComponent(ent0, n, dt) ==
    LET c == ent0.mComponentsContainer[n]
        ent == IF c.inits = <<>>
               THEN [ent0 EXCEPT !.mComponentsContainer[n].early = TRUE]
               ELSE ent0
    IN  IF c.kind = CounterComponent
        THEN [ent EXCEPT !.mComponentsContainer[n].counter = @ + dt]
        ELSE IF c.kind = KillComponent
        THEN IF ent.mComponentsContainer[IndexOf(ent, c.cCounter)].counter
                    >= KillThreshold
             THEN DestroyObjOp(ent)
             ELSE ent
        ELSE ent

\* a call of a member function on the object at an address
Call(fn, a) == [fn |-> fn, on |-> a]

\* Entity::updateObj: every owned component, in insertion order.  r is the
\* entity together with the calls made so far.
RECURSIVE UpdateFrom(_, _, _)
UpdateFrom(r, n, dt) ==
    IF n > Len(r.ent.mComponentsContainer)
    THEN r
    ELSE UpdateFrom([ent |-> UpdateComponent(r.ent, n, dt),
                     calls |-> Append(r.calls,
                         Call("updateComponent",
                              r.ent.mComponentsContainer[n].addr))],
                    n + 1, dt)

\* an updateObj that stops at the component that marked the entity dead
RECURSIVE UpdateFromWhileAlive(_, _, _)
UpdateFromWhileAlive(r, n, dt) ==
    IF n > Len(r.ent.mComponentsContainer) \/ ~IsAlive(r.ent)
    THEN r
    ELSE UpdateFromWhileAlive(
             [ent |-> UpdateComponent(r.ent, n, dt),
              calls |-> Append(r.calls,
                  Call("updateComponent",
                       r.ent.mComponentsContainer[n].addr))],
             n + 1, dt)

UpdateObjWhileAlive(ent, dt) ==
    UpdateFromWhileAlive([ent |-> ent, calls |-> <<>>], 1, dt)

UpdateObj(ent, dt) == UpdateFrom([ent |-> ent, calls |-> <<>>], 1, dt)

\* Entity::renderObj: renderComponent on every owned component, in insertion
\* order; no kind changes the state of the entity in renderComponent
RenderObj(ent) ==
    [n \in 1..Len(ent.mComponentsContainer) |->
        Call("renderComponent", ent.mComponentsContainer[n].addr)]


\* ------------------------------------------------------------ EntityManager
\* the address of entity e (its components are at <<e, 1>>, <<e, 2>>, ...)
EntityPtr(e) == <<e, 0>>

\* the manager and its entities when an operation begins, no call made yet
manager == [heap |-> heap, mEntityContainer |-> mEntityContainer,
            mGroupedEntities |-> mGroupedEntities, calls |-> <<>>]

\* EntityManager::addEntity: a new entity e at the end of the sequence
AddEntityOp(m, e) ==
    [m EXCEPT !.heap = [x \in DOMAIN m.heap \cup {e} |->
                            IF x = e THEN NewEntity ELSE m.heap[x]],
              !.mEntityContainer = Append(@, e)]

\* an addToGroup that registers in the list after the one asked for
AddToGroupOffByOne(groups, e, g) ==
    [groups EXCEPT ![(g + 1) % maxGroups] = Append(@, e)]

\* EntityManager::addToGroup
AddToGroup(groups, e, g) == [groups EXCEPT ![g] = Append(@, e)]

\* EntityManager::getEntitiesByGroup
GetEntitiesByGroup(g) == mGroupedEntities[g]

\* an addGroup that registers only an entity whose bit was clear
AddGroupOnce(m, e, g) ==
    IF HasGroup(m.heap[e], g)
    THEN m
    ELSE [m EXCEPT !.heap[e].mGroupBitset = @ \cup {g},
                   !.mGroupedEntities = AddToGroup(@, e, g)]

\* Entity::addGroup: the bit, then the registration with the manager
AddGroupOp(m, e, g) ==
    [m EXCEPT !.heap[e].mGroupBitset = @ \cup {g},
              !.mGroupedEntities = AddToGroup(@, e, g)]

\* a group cleanup that tests the group bit only
GroupStaleIgnoresDeath(hp, e, i) == ~HasGroup(hp[e], i)

\* a group cleanup that lost the negation of isAlive
GroupStaleDropsLive(hp, e, i) == IsAlive(hp[e]) \/ ~HasGroup(hp[e], i)

\* updateManager, the predicate of the first remove_if:
\* !entity->isAlive() || !entity->hasGroup(i)
GroupStale(hp, e, i) == ~IsAlive(hp[e]) \/ ~HasGroup(hp[e], i)

\* an entity cleanup that also removes the entities that are in no group
EntityDeadOrUngrouped(hp, e) == ~IsAlive(hp[e]) \/ hp[e].mGroupBitset = {}

\* updateManager, the predicate of the second remove_if: !entity->isAlive()
EntityDead(hp, e) == ~IsAlive(hp[e])

\* a group cleanup that also keeps one entry only of every entity
RECURSIVE FirstEntries(_)
FirstEntries(q) ==
    IF q = <<>> THEN <<>>
    ELSE LET r == FirstEntries(SubSeq(q, 1, Len(q) - 1))
             e == q[Len(q)]
         IN  IF \E n \in 1..Len(r) : r[n] = e THEN r ELSE Append(r, e)

GroupCleanupDedup(m) ==
    [m EXCEPT !.mGroupedEntities =
        [i \in GroupIDs |->
            FirstEntries(SelectSeq(m.mGroupedEntities[i],
                                   LAMBDA e : ~GroupStale(m.heap, e, i)))]]

\* a group cleanup that cleans the first group list only
GroupCleanupFirstOnly(m) ==
    [m EXCEPT !.mGroupedEntities =
        [i \in GroupIDs |->
            IF i = 0
            THEN SelectSeq(m.mGroupedEntities[i],
                           LAMBDA e : ~GroupStale(m.heap, e, i))
            ELSE m.mGroupedEntities[i]]]

\* updateManager, lines 219..230: every group list loses its stale entries
GroupCleanup(m) ==
    [m EXCEPT !.mGroupedEntities =
        [i \in GroupIDs |->
            SelectSeq(m.mGroupedEntities[i],
                      LAMBDA e : ~GroupStale(m.heap, e, i))]]

\* updateManager, lines 236..243: the dead entities leave the sequence, and
\* with their unique_ptr the entity and its components are freed
EntityCleanup(m) ==
    LET kept == SelectSeq(m.mEntityContainer, LAMBDA e : ~EntityDead(m.heap, e))
    IN  [m EXCEPT !.mEntityContainer = kept,
                  !.heap = [e \in {kept[n] : n \in 1..Len(kept)} |-> m.heap[e]]]

\* updateManager, lines 246..249: updateObj on every entity of the sequence,
\* in sequence order
RECURSIVE UpdateEntitiesFrom(_, _, _)
UpdateEntitiesFrom(m, n, dt) ==
    IF n > Len(m.mEntityContainer)
    THEN m
    ELSE LET e == m.mEntityContainer[n]
             u == UpdateObj(m.heap[e], dt)
         IN  UpdateEntitiesFrom(
                 [m EXCEPT !.heap[e] = u.ent,
                           !.calls = (@ \o <<Call("updateObj", EntityPtr(e))>>)
                                        \o u.calls],
                 n + 1, dt)

UpdatePhase(m, dt) == UpdateEntitiesFrom(m, 1, dt)

\* an updateManager that updates the entities before it sweeps
UpdateManagerUpdatesFirst(m, dt) == EntityCleanup(GroupCleanup(UpdatePhase(m, dt)))

\* EntityManager::updateManager
UpdateManagerOp(m, dt) == UpdatePhase(EntityCleanup(GroupCleanup(m)), dt)

\* EntityManager::renderManager: renderObj on every entity of the sequence,
\* in sequence order
RECURSIVE RenderEntitiesFrom(_, _)
RenderEntitiesFrom(m, n) ==
    IF n > Len(m.mEntityContainer)
    THEN m
    ELSE LET e == m.mEntityContainer[n]
         IN  RenderEntitiesFrom(
                 [m EXCEPT !.calls = (@ \o <<Call("renderObj", EntityPtr(e))>>)
                                        \o RenderObj(m.heap[e])],
                 n + 1)

\* a renderManager that skips the entities marked dead
RenderManagerAliveOnly(m) ==
    [m EXCEPT !.calls =
        RenderEntitiesFrom(
            [m EXCEPT !.mEntityContainer =
                SelectSeq(@, LAMBDA e : IsAlive(m.heap[e]))], 1).calls]

RenderManagerOp(m) == RenderEntitiesFrom(m, 1)

\* a group list holding a pointer to a freed entity: reading through it in
\* the group cleanup is undefined behaviour
Dangling(m) ==
    \E i \in GroupIDs : \E n \in 1..Len(m.mGroupedEntities[i]) :
        m.mGroupedEntities[i][n] \notin DOMAIN m.heap

\* ------------------------------------------------------------------ actions
Init ==
    /\ lastID = 0
    /\ typeID = [k \in AllKinds |-> NoID]
    /\ firstLookups = <<>>
    /\ heap = <<>>
    /\ mEntityContainer = <<>>
    /\ mGroupedEntities = [g \in GroupIDs |-> <<>>]
    /\ nextEntity = 1
    /\ status = Running
    /\ calls = <<>>

SetManager(m) ==
    /\ heap' = m.heap
    /\ mEntityContainer' = m.mEntityContainer
    /\ mGroupedEntities' = m.mGroupedEntities
    /\ calls' = m.calls

SetRegistry(reg) ==
    /\ lastID' = reg.lastID
    /\ typeID' = reg.typeID
    /\ firstLookups' = reg.firstLookups

\* what a build can do with undefined behaviour in a call: it traps, or it
\* goes on with some value; the model follows the process no further
Outcomes(st) ==
    IF st = Undefined THEN {Trapped, Undefined} ELSE {st}

Live == DOMAIN heap

Range(q) == {q[n] : n \in 1..Len(q)}

\* the number of entries of the group lists
RECURSIVE SumLen(_, _)
SumLen(groups, S) ==
    IF S = {} THEN 0
    ELSE LET g == CHOOSE x \in S : TRUE
         IN  Len(groups[g]) + SumLen(groups, S \ {g})

GroupEntries(groups) == SumLen(groups, GroupIDs)

\* manager.addEntity()
AddEntity(max) ==
    /\ status = Running
    /\ nextEntity <= max
    /\ SetManager(AddEntityOp(manager, nextEntity))
    /\ nextEntity' = nextEntity + 1
    /\ UNCHANGED <<lastID, typeID, firstLookups, status>>

\* entity.hasComponent<k>()
HasComponent(e, k) ==
    /\ status = Running
    /\ e \in Live
    /\ LET r == HasComponentOp(registry, heap[e], k)
       IN  /\ SetRegistry(r.reg)
           /\ status' \in Outcomes(r.status)
    /\ calls' = <<>>
    /\ UNCHANGED <<heap, mEntityContainer, mGroupedEntities, nextEntity>>

\* entity.getComponent<k>()
GetComponent(e, k) ==
    /\ status = Running
    /\ e \in Live
    /\ LET r == GetComponentOp(registry, heap[e], k)
       IN  /\ SetRegistry(r.reg)
           /\ status' \in Outcomes(r.status)
    /\ calls' = <<>>
    /\ UNCHANGED <<heap, mEntityContainer, mGroupedEntities, nextEntity>>

\* entity.addComponent<k>()
AddComponent(e, k) ==
    /\ status = Running
    /\ e \in Live
    /\ LET r == AddComponentOp(registry, heap[e], e, k)
       IN  /\ SetRegistry(r.reg)
           /\ status' \in Outcomes(r.status)
           /\ heap' = [heap EXCEPT ![e] = r.ent]
    /\ calls' = <<>>
    /\ UNCHANGED <<mEntityContainer, mGroupedEntities, nextEntity>>

\* entity.addGroup(g)
AddGroup(e, g) ==
    /\ status = Running
    /\ e \in Live
    /\ SetManager(AddGroupOp(manager, e, g))
    /\ UNCHANGED <<lastID, typeID, firstLookups, nextEntity, status>>

\* entity.deleteGroup(g)
DeleteGroup(e, g) ==
    /\ status = Running
    /\ e \in Live
    /\ heap' = [heap EXCEPT ![e] = DeleteGroupOp(@, g)]
    /\ calls' = <<>>
    /\ UNCHANGED <<lastID, typeID, firstLookups, mEntityContainer,
                   mGroupedEntities, nextEntity, status>>

\* entity.destroyObj()
DestroyObj(e) ==
    /\ status = Running
    /\ e \in Live
    /\ heap' = [heap EXCEPT ![e] = DestroyObjOp(@)]
    /\ calls' = <<>>
    /\ UNCHANGED <<lastID, typeID, firstLookups, mEntityContainer,
                   mGroupedEntities, nextEntity, status>>

\* the counters stay within the model after the tick
CountersWithin(hp) ==
    \A e \in DOMAIN hp :
        \A n \in 1..Len(hp[e].mComponentsContainer) :
            hp[e].mComponentsContainer[n].counter <= MaxCounter

\* manager.updateManager(dt)
UpdateManager(dt) ==
    /\ status = Running
    /\ IF Dangling(manager)
       THEN /\ status' \in Outcomes(Undefined)
            /\ calls' = <<>>
            /\ UNCHANGED <<heap, mEntityContainer, mGroupedEntities>>
       ELSE /\ SetManager(UpdateManagerOp(manager, dt))
            /\ CountersWithin(heap')
            /\ UNCHANGED status
    /\ UNCHANGED <<lastID, typeID, firstLookups, nextEntity>>

\* manager.renderManager(window)
RenderManager ==
    /\ status = Running
    /\ SetManager(RenderManagerOp(manager))
    /\ UNCHANGED <<lastID, typeID, firstLookups, nextEntity, status>>

\* main, lines 357..359: the components of an entity are attached in the
\* order Counter, Shape, Kill
KitOrder == <<CounterComponent, ShapeComponent, KillComponent>>

NextOfKit(ent) ==
    IF Len(ent.mComponentsContainer) < Len(KitOrder)
    THEN {KitOrder[Len(ent.mComponentsContainer) + 1]}
    ELSE {}

GroupRoom == GroupEntries(mGroupedEntities) < MaxGroupEntries

\* The driver of main: entities are spawned, given their components in the
\* order of main, put into and taken out of groups, killed, and ticked.
Next ==
    \/ AddEntity(MaxEntities)
    \/ \E e \in Live : \E k \in NextOfKit(heap[e]) : AddComponent(e, k)
    \/ \E e \in Live, g \in ProgramGroups : GroupRoom /\ AddGroup(e, g)
    \/ \E e \in Live, g \in ProgramGroups : DeleteGroup(e, g)
    \/ \E e \in Live : DestroyObj(e)
    \/ \E dt \in Dts : UpdateManager(dt)

Spec == Init /\ [][Next]_vars

\* A driver that attaches and queries the components in any order.
NextComp ==
    \/ AddEntity(MaxEntities)
    \/ \E e \in Live, k \in ProgramKinds : HasComponent(e, k)
    \/ \E e \in Live, k \in ProgramKinds : GetComponent(e, k)
    \/ \E e \in Live, k \in ProgramKinds : AddComponent(e, k)
    \/ \E e \in Live : DestroyObj(e)
    \/ \E dt \in Dts : UpdateManager(dt)

SpecComp == Init /\ [][NextComp]_vars

\* A driver that spawns entities and has each join one group, once.
NotJoined(e) == \A g \in GroupIDs : ~HasGroup(heap[e], g)

NextJoin ==
    \/ AddEntity(JoinEntities)
    \/ \E e \in Live, g \in ProgramGroups : NotJoined(e) /\ AddGroup(e, g)

SpecJoin == Init /\ [][NextJoin]_vars

\* A driver of the registry: the kinds of the program in any order, then
\* kinds beyond them, up to maxComponents + 1 kinds in all.  The further
\* kinds keep the hooks of Component and are interchangeable, so the next
\* of them to be looked up for the first time is the lowest not yet used.
ExtraKinds == AllKinds \ ProgramKinds

RegCandidates ==
    IF \E k \in ProgramKinds : typeID[k] = NoID
    THEN {}
    ELSE {k \in ExtraKinds :
            \A j \in ExtraKinds : j < k => typeID[j] # NoID}

NextReg ==
    \/ AddEntity(MaxEntities)
    \/ \E e \in Live, k \in ProgramKinds \cup RegCandidates : HasComponent(e, k)
    \/ \E e \in Live, k \in ProgramKinds \cup RegCandidates : GetComponent(e, k)
    \/ \E e \in Live, k \in ProgramKinds : AddComponent(e, k)

SpecReg == Init /\ [][NextReg]_vars

\* A driver of the sweep: entities without components are spawned, put into
\* and taken out of groups, killed, ticked and rendered.
SweepRoom == GroupEntries(mGroupedEntities) < SweepEntries

NextSweep ==
    \/ AddEntity(SweepEntities)
    \/ \E e \in Live, g \in ProgramGroups : SweepRoom /\ AddGroup(e, g)
    \/ \E e \in Live, g \in ProgramGroups : DeleteGroup(e, g)
    \/ \E e \in Live : DestroyObj(e)
    \/ \E dt \in Dts : UpdateManager(dt)
    \/ RenderManager

SpecSweep == Init /\ [][NextSweep]_vars

\* A driver of several entities with components: each entity is given the
\* kinds it does not have yet, in any order, between the ticks.
Lacks(e, k) == typeID[k] = NoID \/ typeID[k] \notin heap[e].mComponentBitset

NextPair ==
    \/ AddEntity(PairEntities)
    \/ \E e \in Live, k \in ProgramKinds : Lacks(e, k) /\ AddComponent(e, k)
    \/ \E dt \in Dts : UpdateManager(dt)

SpecPair == Init /\ [][NextPair]_vars

\* A driver of the kill: the entities get the components of main in the
\* order of main and a plain Component after them, join groups, and are
\* ticked; only a KillComponent marks an entity dead.
LongKit == KitOrder \o <<BaseComponent>>

NextOfLongKit(ent) ==
    IF Len(ent.mComponentsContainer) < Len(LongKit)
    THEN {LongKit[Len(ent.mComponentsContainer) + 1]}
    ELSE {}

NextKill ==
    \/ AddEntity(MaxEntities)
    \/ \E e \in Live : \E k \in NextOfLongKit(heap[e]) : AddComponent(e, k)
    \/ \E e \in Live, g \in ProgramGroups : GroupRoom /\ AddGroup(e, g)
    \/ \E dt \in Dts : UpdateManager(dt)

SpecKill == Init /\ [][NextKill]_vars

\* =================================================================== claims
Tick == \E dt \in Dts : UpdateManager(dt)

\* entity e has the capability bit of kind k
Has(hp, tid, e, k) ==
    tid[k] \in ComponentIDs /\ tid[k] \in hp[e].mComponentBitset

\* the place of the component of kind k in the owned sequence of an entity,
\* 0 when the entity owns none
PlaceOf(ent, k) ==
    IF \E n \in 1..Len(ent.mComponentsContainer) :
            ent.mComponentsContainer[n].kind = k
    THEN CHOOSE n \in 1..Len(ent.mComponentsContainer) :
            ent.mComponentsContainer[n].kind = k
    ELSE 0

\* the value of the CounterComponent of an entity
CounterOf(ent) == ent.mComponentsContainer[PlaceOf(ent, CounterComponent)].counter

\* an entity whose CounterComponent was attached before its KillComponent
CounterBeforeKill(ent) ==
    /\ PlaceOf(ent, CounterComponent) > 0
    /\ PlaceOf(ent, CounterComponent) < PlaceOf(ent, KillComponent)

\* C1: a tick leaves no entity that was dead when it began in the entity
\* sequence, nor any reference to it in any of the 32 group lists.
C1_Step ==
    Tick => \A e \in Live :
        ~heap[e].mAlive =>
            /\ e \notin Range(mEntityContainer')
            /\ e \notin DOMAIN heap'
            /\ \A g \in GroupIDs : e \notin Range(mGroupedEntities'[g])

C1_DeadEntitySwept == [][C1_Step]_vars

\* the entity has been spawned, marked dead and swept, and the process runs
C1_Witness ==
    /\ status = Running
    /\ nextEntity > 1
    /\ 1 \notin Live
    /\ 1 \notin Range(mEntityContainer)
    /\ \A g \in GroupIDs : mGroupedEntities[g] = <<>>

\* C2: the alive flag is one-way.  An entity is born alive by addEntity; a
\* dead entity is never alive again; the flag falls only by destroyObj,
\* called by the driver or by the entity's KillComponent in a tick; an
\* entity leaves the sequence only in a tick, and only when dead; a
\* destroyed entity does not come back.
KillFired(ent) ==
    \E n \in 1..Len(ent.mComponentsContainer) :
        LET c == ent.mComponentsContainer[n]
        IN  /\ c.kind = KillComponent
            /\ Owns(ent, c.cCounter)
            /\ ent.mComponentsContainer[IndexOf(ent, c.cCounter)].counter
                   >= KillThreshold

C2_Step ==
    /\ \A e \in DOMAIN heap' \ Live :
          /\ e = nextEntity
          /\ nextEntity' = nextEntity + 1
          /\ heap'[e].mAlive
          /\ mEntityContainer' = Append(mEntityContainer, e)
    /\ \A e \in Live \cap DOMAIN heap' :
          /\ ~heap[e].mAlive => ~heap'[e].mAlive
          /\ (heap[e].mAlive /\ ~heap'[e].mAlive) =>
                \/ DestroyObj(e)
                \/ Tick /\ KillFired(heap'[e])
    /\ \A e \in Live \ DOMAIN heap' : ~heap[e].mAlive /\ Tick
    /\ \A e \in Range(mEntityContainer) \ Range(mEntityContainer') :
          ~heap[e].mAlive /\ Tick
    /\ \A e \in 1..(nextEntity - 1) : e \notin Live => e \notin DOMAIN heap'
    /\ nextEntity' >= nextEntity

C2_AliveIsOneWay == [][C2_Step]_vars

\* the entity went through Alive, PendingRemoval and Destroyed
C2_Witness ==
    /\ nextEntity > 1
    /\ 1 \notin Live
    /\ mEntityContainer = <<>>
    /\ lastID = Len(KitOrder)

\* C3: destroyObj changes the alive flag of its entity and nothing else: the
\* entity stays in the sequence and in the group lists, its bits and
\* components stay; on a dead entity it changes nothing.
C3_Step ==
    \A e \in Live :
        DestroyObj(e) =>
            /\ DOMAIN heap' = Live
            /\ \A x \in Live \ {e} : heap'[x] = heap[x]
            /\ ~heap'[e].mAlive
            /\ heap'[e].mComponentsContainer = heap[e].mComponentsContainer
            /\ heap'[e].mComponentArray = heap[e].mComponentArray
            /\ heap'[e].mComponentBitset = heap[e].mComponentBitset
            /\ heap'[e].mGroupBitset = heap[e].mGroupBitset
            /\ mEntityContainer' = mEntityContainer
            /\ mGroupedEntities' = mGroupedEntities
            /\ <<lastID, typeID, nextEntity, status>>'
                   = <<lastID, typeID, nextEntity, status>>
            /\ ~heap[e].mAlive => heap' = heap

C3_DestroyObjOnlyFlag == [][C3_Step]_vars

\* a dead entity that is still in the sequence and still listed in a group
\* whose bit it has, with a component
C3_Witness ==
    \E e \in Live :
        /\ ~heap[e].mAlive
        /\ e \in Range(mEntityContainer)
        /\ heap[e].mComponentsContainer # <<>>
        /\ \E g \in ProgramGroups :
              g \in heap[e].mGroupBitset /\ e \in Range(mGroupedEntities[g])

\* C4: an alive entity whose group bit g is set is listed in group list g.
C4_AliveMemberListed ==
    \A e \in Live : \A g \in GroupIDs :
        (heap[e].mAlive /\ g \in heap[e].mGroupBitset)
            => e \in Range(GetEntitiesByGroup(g))

\* a tick has just run on both entities: the second is an alive member of
\* both groups and is in both lists; the first, spawned before it, has left
\* the Player group and is out of its list, and is still in the NPC list,
\* before the second
C4_Witness ==
    /\ calls = <<Call("updateObj", EntityPtr(1)), Call("updateObj", EntityPtr(2))>>
    /\ heap[2].mAlive
    /\ heap[2].mGroupBitset = {Player, NPC}
    /\ heap[1].mAlive
    /\ heap[1].mGroupBitset = {NPC}
    /\ GetEntitiesByGroup(Player) = <<2>>
    /\ GetEntitiesByGroup(NPC) = <<1, 2>>

\* C5: when every entity joins at most one group, once, each group list
\* holds exactly the entities that joined it, once each.
Members(g) == {e \in Live : g \in heap[e].mGroupBitset}

C5_ListsHoldTheirJoiners ==
    \A g \in GroupIDs :
        /\ Len(GetEntitiesByGroup(g)) = Cardinality(Members(g))
        /\ Range(GetEntitiesByGroup(g)) = Members(g)
        /\ \A h \in GroupIDs \ {g} :
              Range(GetEntitiesByGroup(g)) \cap Range(GetEntitiesByGroup(h)) = {}

\* two entities in each group, joined in another order than spawned
C5_Witness ==
    /\ Len(GetEntitiesByGroup(Player)) = 2
    /\ Len(GetEntitiesByGroup(NPC)) = 2
    /\ GetEntitiesByGroup(Player)[1] > GetEntitiesByGroup(Player)[2]
    /\ GetEntitiesByGroup(NPC)[1] = 1

\* C6: capability bit i of an entity is set exactly when the entity owns a
\* component of the kind with id i; then it owns one such component and
\* slot i of the lookup table is its address; the number of owned
\* components is the number of set bits.
C6_BitsMatchComponents ==
    \A e \in Live :
        LET ent == heap[e]
            cs == ent.mComponentsContainer
        IN  /\ \A n \in 1..Len(cs) : typeID[cs[n].kind] \in ComponentIDs
            /\ \A i \in ComponentIDs :
                  LET holders == {n \in 1..Len(cs) : typeID[cs[n].kind] = i}
                  IN  /\ i \in ent.mComponentBitset <=> holders # {}
                      /\ Cardinality(holders) <= 1
                      /\ \A n \in holders :
                            /\ i \in DOMAIN ent.mComponentArray
                            /\ ent.mComponentArray[i] = cs[n].addr
            /\ \A m, n \in 1..Len(cs) :
                  m # n => cs[m].kind # cs[n].kind /\ cs[m].addr # cs[n].addr
            /\ ent.mComponentBitset \subseteq ComponentIDs
            /\ Len(cs) = Cardinality(ent.mComponentBitset)

\* an entity with the three components of the program
C6_Witness ==
    \E e \in Live :
        /\ Len(heap[e].mComponentsContainer) = 3
        /\ \A k \in ProgramKinds : Has(heap, typeID, e, k)

\* C7: addComponent<k> on an entity that has a component of kind k ends the
\* process with the assert "entity already owns this component", and the
\* entity is as before the call.
C7_Step ==
    \A e \in Live : \A k \in ProgramKinds :
        (AddComponent(e, k) /\ Has(heap, typeID, e, k)) =>
            /\ status' = DuplicateAbort
            /\ heap' = heap
            /\ mEntityContainer' = mEntityContainer

C7_DuplicateAddAborts == [][C7_Step]_vars

\* the process ended by the duplicate assert, the entity holding one
\* component of each kind it was given
C7_Witness ==
    /\ status = DuplicateAbort
    /\ \E e \in Live :
          /\ Len(heap[e].mComponentsContainer) = 2
          /\ Cardinality(heap[e].mComponentBitset) = 2

\* C8: what addComponent<k> returns is what getComponent<k> returns from
\* then on, for as long as the entity exists: a component of kind k owned by
\* the entity, at an address that was not in use before.
Get(reg, hp, e, k) == GetComponentOp(reg, hp[e], k).ret

C8_Step ==
    /\ \A e \in Live : \A k \in ProgramKinds :
          (AddComponent(e, k) /\ status' = Running) =>
              LET r == AddComponentOp(registry, heap[e], e, k).ret
              IN  /\ r # NullPtr
                  /\ ~Owns(heap[e], r)
                  /\ Has(heap', typeID', e, k)
                  /\ Get(registry', heap', e, k) = r
    /\ \A e \in Live \cap DOMAIN heap' : \A k \in ProgramKinds :
          Has(heap, typeID, e, k) =>
              /\ Has(heap', typeID', e, k)
              /\ Get(registry', heap', e, k) = Get(registry, heap, e, k)
              /\ Owns(heap'[e], Get(registry, heap, e, k))
              /\ LET c == heap'[e].mComponentsContainer[
                              IndexOf(heap'[e], Get(registry, heap, e, k))]
                 IN  c.kind = k /\ c.mEntity = e

C8_GetReturnsTheAdded == [][C8_Step]_vars

\* the first component of the first entity is still what getComponent
\* returns for its kind after two more kinds were added to that entity, the
\* three kinds were added to a second entity in another order, and a tick
\* has run on both
C8_Witness ==
    /\ status = Running
    /\ Live = {1, 2}
    /\ Len(heap[1].mComponentsContainer) = 3
    /\ heap[1].mComponentsContainer[1].kind = ShapeComponent
    /\ Get(registry, heap, 1, ShapeComponent) = <<1, 1>>
    /\ Get(registry, heap, 1, CounterComponent) = <<1, 2>>
    /\ Len(heap[2].mComponentsContainer) = 3
    /\ Get(registry, heap, 2, CounterComponent) = <<2, 1>>
    /\ Get(registry, heap, 2, ShapeComponent) = <<2, 2>>
    /\ CounterOf(heap[1]) > 0
    /\ CounterOf(heap[2]) > 0

\* C9: the j-th kind ever looked up has id j - 1, distinct kinds have
\* distinct ids, up to maxComponents kinds the ids are below maxComponents,
\* and the id of a kind never changes.
C9_Ids ==
    /\ \A j \in 1..Len(firstLookups) : typeID[firstLookups[j]] = j - 1
    /\ \A k \in AllKinds : typeID[k] # NoID <=> k \in Range(firstLookups)
    /\ \A k, l \in Range(firstLookups) : k # l => typeID[k] # typeID[l]
    /\ Len(firstLookups) <= maxComponents =>
          \A k \in Range(firstLookups) : typeID[k] \in ComponentIDs

C9_Step == \A k \in AllKinds : typeID[k] # NoID => typeID'[k] = typeID[k]

C9_IdsStableAndDistinct == [](C9_Ids) /\ [][C9_Step]_vars

\* maxComponents kinds have their ids, and the first kind looked up was not
\* the first kind of the program
C9_Witness ==
    /\ Len(firstLookups) = maxComponents
    /\ firstLookups[1] = KillComponent
    /\ typeID[CounterComponent] = 1

\* C10: no id of maxComponents or more is ever given to a kind; the process
\* has ended before.
C10_NoIdBeyondCapacity ==
    \A k \in AllKinds : typeID[k] # NoID => typeID[k] < maxComponents

\* C11: an alive entity with a counter attached before a kill component is
\* alive after a tick of one second that leaves its counter below 3, and is
\* marked dead, still in the sequence, by the tick that brings the counter
\* to 3; the tick after that takes it out of the sequence.
C11_Step ==
    Tick => \A e \in Live :
        CounterBeforeKill(heap[e]) =>
            IF heap[e].mAlive
            THEN /\ e \in Range(mEntityContainer')
                 /\ Len(mEntityContainer') = Len(mEntityContainer)
                 /\ CounterOf(heap'[e]) = CounterOf(heap[e]) + 1
                 /\ heap'[e].mAlive <=> CounterOf(heap'[e]) < 3
            ELSE /\ e \notin Range(mEntityContainer')
                 /\ Len(mEntityContainer') = Len(mEntityContainer) - 1

C11_KillAtThree == [][C11_Step]_vars

\* C12: every component of an entity has received initComponent exactly
\* once; the call found the back-reference naming the owning entity, the
\* component in the owned sequence and in its slot of the lookup table, and
\* its capability bit set; no updateComponent came before it.
C12_InitOnceWhenInstalled ==
    \A e \in Live :
        \A n \in 1..Len(heap[e].mComponentsContainer) :
            LET c == heap[e].mComponentsContainer[n]
            IN  /\ Len(c.inits) = 1
                /\ c.inits[1] = [mEntity |-> e, owned |-> TRUE,
                                 slot |-> TRUE, bit |-> TRUE]
                /\ ~c.early

\* an entity with its three components, each initialised at its attachment,
\* that went through two ticks and is marked dead
C12_Witness ==
    \E e \in Live :
        /\ status = Running
        /\ Len(heap[e].mComponentsContainer) = 3
        /\ CounterBeforeKill(heap[e])
        /\ PlaceOf(heap[e], KillComponent) = 3
        /\ heap[e].mComponentsContainer[3].cCounter # NullPtr
        /\ CounterOf(heap[e]) = 2
        /\ ~heap[e].mAlive

\* the calls of one member function among the calls of an operation
CallsOf(fn, cs) == SelectSeq(cs, LAMBDA c : c.fn = fn)

\* the entities of a sequence that are alive
AliveOf(hp, q) == SelectSeq(q, LAMBDA e : hp[e].mAlive)

\* C13: a tick cleans the group lists by the flags the entities had when it
\* began, every referenced entity still existing; then it removes the dead
\* entities; then it calls updateObj once on each entity that was alive when
\* it began, in the order of the sequence, and on no other.
C13_Step ==
    Tick =>
        /\ status' = Running
        /\ \A g \in GroupIDs :
              /\ Range(mGroupedEntities[g]) \subseteq Live
              /\ mGroupedEntities'[g] =
                    SelectSeq(mGroupedEntities[g],
                              LAMBDA e : heap[e].mAlive /\ g \in heap[e].mGroupBitset)
        /\ mEntityContainer' = AliveOf(heap, mEntityContainer)
        /\ CallsOf("updateObj", calls') =
              [n \in 1..Len(AliveOf(heap, mEntityContainer)) |->
                  Call("updateObj", EntityPtr(AliveOf(heap, mEntityContainer)[n]))]

C13_PhasesInOrder == [][C13_Step]_vars

\* a tick has just updated the second entity and no other: the first one
\* was dead when the tick began and is gone, from its group list too
C13_Witness ==
    /\ calls = <<Call("updateObj", EntityPtr(2))>>
    /\ mEntityContainer = <<2>>
    /\ Live = {2}
    /\ GetEntitiesByGroup(Player) = <<2>>
    /\ GetEntitiesByGroup(NPC) = <<>>
    /\ Player \in heap[2].mGroupBitset

\* the entries of a sequence that are in a set, in their order
RECURSIVE Kept(_, _)
Kept(q, K) ==
    IF q = <<>> THEN <<>>
    ELSE IF Head(q) \in K THEN <<Head(q)>> \o Kept(Tail(q), K)
    ELSE Kept(Tail(q), K)

\* how often an entity is in a sequence
Count(q, e) == Cardinality({n \in 1..Len(q) : q[n] = e})

\* C14: a tick takes out of group list g exactly the entries of the entities
\* that are dead or have bit g clear, and keeps the others in their order,
\* as often as they were there; it takes out of the sequence exactly the dead
\* entities and keeps the alive ones in their order.
C14_Step ==
    Tick =>
        /\ \A g \in GroupIDs :
              /\ mGroupedEntities'[g] =
                    Kept(mGroupedEntities[g],
                         {e \in Live : heap[e].mAlive /\ HasGroup(heap[e], g)})
              /\ \A e \in Live :
                    Count(mGroupedEntities'[g], e) =
                        IF heap[e].mAlive /\ HasGroup(heap[e], g)
                        THEN Count(mGroupedEntities[g], e)
                        ELSE 0
        /\ mEntityContainer' = Kept(mEntityContainer, {e \in Live : heap[e].mAlive})
        /\ DOMAIN heap' = {e \in Live : heap[e].mAlive}
        /\ \A e \in Live : heap[e].mAlive => Count(mEntityContainer', e) = 1

C14_SweepsExactlyTheStale == [][C14_Step]_vars

\* a tick has left the second entity alone in the sequence, twice in the
\* list of the one group it is in: the first entity was swept
C14_Witness ==
    /\ calls = <<Call("updateObj", EntityPtr(2))>>
    /\ Live = {2}
    /\ heap[2].mGroupBitset = {Player}
    /\ GetEntitiesByGroup(Player) = <<2, 2>>

\* C15: deleteGroup(g) clears bit g of its entity and changes nothing else;
\* no operation but a tick takes an entry out of a group list, so the entity
\* is still listed in g; the next tick, the bit still clear, leaves no entry
\* of the entity in list g, and leaves the entity, if alive, in the sequence
\* and as often as before in the lists of the groups whose bit it has.
C15_Step ==
    /\ \A e \in Live : \A g \in ProgramGroups :
          DeleteGroup(e, g) =>
              /\ heap' = [heap EXCEPT ![e].mGroupBitset = @ \ {g}]
              /\ mGroupedEntities' = mGroupedEntities
              /\ mEntityContainer' = mEntityContainer
              /\ status' = status
    /\ IF Tick
       THEN \A e \in Live : \A g \in GroupIDs :
               ~HasGroup(heap[e], g) =>
                   /\ Count(mGroupedEntities'[g], e) = 0
                   /\ heap[e].mAlive =>
                         /\ e \in Range(mEntityContainer')
                         /\ heap'[e].mAlive \/ KillFired(heap'[e])
                         /\ heap'[e].mGroupBitset = heap[e].mGroupBitset
                         /\ \A h \in heap[e].mGroupBitset :
                               Count(mGroupedEntities'[h], e)
                                   = Count(mGroupedEntities[h], e)
       ELSE \A g \in GroupIDs :
               /\ Len(mGroupedEntities'[g]) >= Len(mGroupedEntities[g])
               /\ SubSeq(mGroupedEntities'[g], 1, Len(mGroupedEntities[g]))
                      = mGroupedEntities[g]

C15_LeaveIsLazy == [][C15_Step]_vars

\* an alive entity that left the Player group and is still in its list, and
\* is in the NPC group
C15_Witness ==
    \E e \in Live :
        /\ heap[e].mAlive
        /\ heap[e].mGroupBitset = {NPC}
        /\ e \in Range(GetEntitiesByGroup(Player))
        /\ e \in Range(GetEntitiesByGroup(NPC))

\* C16: addGroup(g) sets bit g and appends the entity to list g whatever the
\* list holds: on an entity that list g already holds, whether its bit is
\* set (a second addGroup) or clear (deleteGroup, then addGroup), the list
\* then holds the entity at least twice.
C16_Step ==
    \A e \in Live : \A g \in ProgramGroups :
        AddGroup(e, g) =>
            /\ mGroupedEntities' =
                  [mGroupedEntities EXCEPT ![g] = Append(@, e)]
            /\ heap' = [heap EXCEPT ![e].mGroupBitset = @ \cup {g}]
            /\ Count(mGroupedEntities'[g], e) = Count(mGroupedEntities[g], e) + 1
            /\ e \in Range(mGroupedEntities[g]) =>
                  Count(mGroupedEntities'[g], e) >= 2

C16_AddGroupAlwaysAppends == [][C16_Step]_vars

\* the latest operation was no tick; the only entity is twice in the list
\* of Player and once in the list of NPC, which it has left
C16_Witness ==
    /\ calls = <<>>
    /\ mEntityContainer = <<1>>
    /\ heap[1].mAlive
    /\ heap[1].mGroupBitset = {Player}
    /\ GetEntitiesByGroup(Player) = <<1, 1>>
    /\ GetEntitiesByGroup(NPC) = <<1>>

\* C17: renderManager calls renderObj once on every entity of the sequence,
\* in the order of the sequence, alive or marked dead, in a group or not,
\* and changes nothing of the manager, the entities or the registry.
C17_Step ==
    RenderManager =>
        /\ CallsOf("renderObj", calls') =
              [n \in 1..Len(mEntityContainer) |->
                  Call("renderObj", EntityPtr(mEntityContainer[n]))]
        /\ <<lastID, typeID, firstLookups, heap, mEntityContainer,
             mGroupedEntities, nextEntity, status>>'
              = <<lastID, typeID, firstLookups, heap, mEntityContainer,
                  mGroupedEntities, nextEntity, status>>

C17_RenderWholeSequence == [][C17_Step]_vars

\* two entities were rendered in their order, the first of them marked dead
\* and in no group
C17_Witness ==
    /\ calls = <<Call("renderObj", EntityPtr(1)), Call("renderObj", EntityPtr(2))>>
    /\ mEntityContainer = <<1, 2>>
    /\ ~heap[1].mAlive
    /\ heap[1].mGroupBitset = {}
    /\ heap[2].mAlive

\* every entry of every group list of a manager is an entity of its sequence,
\* not freed
Referenced(m) ==
    \A g \in GroupIDs :
        /\ Range(m.mGroupedEntities[g]) \subseteq Range(m.mEntityContainer)
        /\ Range(m.mGroupedEntities[g]) \subseteq DOMAIN m.heap

\* C18: in every state between operations, and after the group cleanup and
\* after the entity cleanup of a tick that begins there, every entry of
\* every group list is an entity that is in the sequence and not freed.
C18_NoDanglingGroupEntry ==
    /\ Referenced(manager)
    /\ ~Dangling(manager)
    /\ Referenced(GroupCleanup(manager))
    /\ Referenced(EntityCleanup(GroupCleanup(manager)))
    /\ \A dt \in Dts : Referenced(UpdateManagerOp(manager, dt))

\* an entity whose counter reached the threshold of its kill component, dead
\* and not yet swept, that has left the NPC group since its last tick: it
\* is still in both lists, and in the sequence
C18_Witness ==
    \E e \in Live :
        /\ status = Running
        /\ ~heap[e].mAlive
        /\ KillFired(heap[e])
        /\ calls = <<>>
        /\ heap[e].mGroupBitset = {Player}
        /\ e \in Range(GetEntitiesByGroup(Player))
        /\ e \in Range(GetEntitiesByGroup(NPC))
        /\ e \in Range(mEntityContainer)

\* the calls of an operation on the components of entity e
OnComponentsOf(e, cs) == SelectSeq(cs, LAMBDA c : c.on[1] = e /\ c.on[2] > 0)

\* C19: a tick does not remove an entity that was alive when it began, also
\* when a component marks it dead in that tick: the entity is then still in
\* the sequence and as often as before in the lists of its groups, and all
\* its components were updated, in their order, those after the marking one
\* too.  The next tick removes it from the sequence and from every list, and
\* calls neither updateObj on it nor updateComponent on a component of it.
C19_Step ==
    Tick => \A e \in Live :
        IF heap[e].mAlive
        THEN /\ e \in Range(mEntityContainer')
             /\ e \in DOMAIN heap'
             /\ heap'[e].mGroupBitset = heap[e].mGroupBitset
             /\ \A g \in heap[e].mGroupBitset :
                   Count(mGroupedEntities'[g], e) = Count(mGroupedEntities[g], e)
             /\ Count(calls', Call("updateObj", EntityPtr(e))) = 1
             /\ OnComponentsOf(e, calls') =
                   [n \in 1..Len(heap[e].mComponentsContainer) |->
                       Call("updateComponent",
                            heap[e].mComponentsContainer[n].addr)]
             /\ ~heap'[e].mAlive => KillFired(heap'[e])
        ELSE /\ e \notin Range(mEntityContainer')
             /\ e \notin DOMAIN heap'
             /\ \A g \in GroupIDs : Count(mGroupedEntities'[g], e) = 0
             /\ \A n \in 1..Len(calls') : calls'[n].on[1] # e

C19_DeadInUpdateSweptNextTick == [][C19_Step]_vars

\* the latest tick marked the entity dead by its kill component and went on
\* to update the component after it; the entity is in the sequence and in
\* the list of its group
C19_Witness ==
    \E e \in Live :
        /\ ~heap[e].mAlive
        /\ Len(heap[e].mComponentsContainer) = 4
        /\ heap[e].mComponentsContainer[3].kind = KillComponent
        /\ calls = <<Call("updateObj", EntityPtr(e)),
                     Call("updateComponent", <<e, 1>>),
                     Call("updateComponent", <<e, 2>>),
                     Call("updateComponent", <<e, 3>>),
                     Call("updateComponent", <<e, 4>>)>>
        /\ e \in Range(mEntityContainer)
        /\ heap[e].mGroupBitset = {NPC}
        /\ GetEntitiesByGroup(NPC) = <<e>>

\* C20: a group list loses entries of an entity only in a tick, only all of
\* them at once, and only when the entity was dead or had the bit of the
\* group clear when the tick began; an alive entity with the bit set is as
\* often in the list after a tick as before it.
C20_Step ==
    IF Tick
    THEN \A e \in Live : \A g \in GroupIDs :
            IF heap[e].mAlive /\ HasGroup(heap[e], g)
            THEN Count(mGroupedEntities'[g], e) = Count(mGroupedEntities[g], e)
            ELSE Count(mGroupedEntities'[g], e) = 0
    ELSE \A e \in Live : \A g \in GroupIDs :
            Count(mGroupedEntities'[g], e) >= Count(mGroupedEntities[g], e)

C20_NoDeduplication == [][C20_Step]_vars

\* a tick has just run on two alive entities, and the first of them is
\* still twice in the list of Player, around the second
C20_Witness ==
    /\ calls = <<Call("updateObj", EntityPtr(1)), Call("updateObj", EntityPtr(2))>>
    /\ GetEntitiesByGroup(Player) = <<1, 2, 1>>
    /\ heap[1].mAlive /\ HasGroup(heap[1], Player)
    /\ heap[2].mAlive /\ HasGroup(heap[2], Player)

====
